---- MODULE Spec2Model ----
(***************************************************************************)
(* Model of the drug-prevalence prediction service (james/drugs).          *)
(*                                                                         *)
(* Numbers.  Survey rates are percentages that the extraction script       *)
(* rounds to 4 decimals, so a rate is modelled as an integer number of     *)
(* units of 0.0001 percent (RateScale units per percent).  A Result's      *)
(* rate, baseline_rate and multiplier are rounded to 2 decimals and are    *)
(* modelled as integers in hundredths.  math.log and math.exp are taken as *)
(* exact real functions: the value base * exp(mean(ln(ratio_i))) is kept   *)
(* as the k-th root of a rational and compared with integers by exact      *)
(* multi-precision arithmetic; binary floating-point error is not          *)
(* modelled, and a value lying exactly on a rounding boundary rounds up.   *)
(***************************************************************************)
EXTENDS Integers, Sequences, FiniteSets, TLC

VARIABLES pc, BASELINE, DRUG_CLASSES, QUESTIONS, DRUGS, answers, response, saved,
          page, calls

vars == <<pc, BASELINE, DRUG_CLASSES, QUESTIONS, DRUGS, answers, response, saved,
          page, calls>>

store == <<BASELINE, DRUG_CLASSES, QUESTIONS, DRUGS>>

(***************************************************************************)
(* Bounds of the exploration.                                              *)
(***************************************************************************)
MaxDrugs == 2
MaxQuestions == 2
MaxEntries == 2
MaxLater == 2
MaxCalls == 2
MaxShown == 4
MaxCards == 4

(***************************************************************************)
(* Program constants, in rate units.                                       *)
(***************************************************************************)
RateScale == 10000
Cap == 950000
Floor == 100
\* The page's any-drug estimate: the number of leading Results it sums, the
\* factor 0.85 in hundredths, its cap of 95 percent, and the thresholds 20,
\* 12, 7 and 3 percent of the verdicts.
TopCount == 3
Discount == 85
AnyDrugCap == 950000
Partying == 200000
SideEye == 120000
Average == 70000
SqueakyClean == 30000
\* The number of answers from which the page enables its submit button.
MinAnswers == 3

(***************************************************************************)
(* Exact natural-number arithmetic on little-endian sequences of limbs in  *)
(* base 1000 (no leading zero limb; zero is the empty sequence).  It       *)
(* carries the products that ln/exp of the source stand for.               *)
(***************************************************************************)
RECURSIVE BigOf(_)
BigOf(n) ==
    IF n = 0 THEN <<>> ELSE <<n % 1000>> \o BigOf(n \div 1000)

RECURSIVE BigAddC(_, _, _)
BigAddC(a, b, c) ==
    IF a = <<>> /\ b = <<>> THEN BigOf(c)
    ELSE LET x == IF a = <<>> THEN 0 ELSE Head(a)
             y == IF b = <<>> THEN 0 ELSE Head(b)
             t == x + y + c
         IN  <<t % 1000>> \o BigAddC(IF a = <<>> THEN a ELSE Tail(a),
                                     IF b = <<>> THEN b ELSE Tail(b),
                                     t \div 1000)

BigAdd(a, b) == BigAddC(a, b, 0)

RECURSIVE BigMulLimb(_, _, _)
BigMulLimb(a, d, c) ==
    IF a = <<>> THEN BigOf(c)
    ELSE LET t == Head(a) * d + c
         IN  <<t % 1000>> \o BigMulLimb(Tail(a), d, t \div 1000)

RECURSIVE BigMul(_, _)
BigMul(a, b) ==
    IF a = <<>> \/ b = <<>> THEN <<>>
    ELSE LET low  == IF Head(a) = 0 THEN <<>> ELSE BigMulLimb(b, Head(a), 0)
             high == BigMul(Tail(a), b)
         IN  BigAdd(low, IF high = <<>> THEN <<>> ELSE <<0>> \o high)

RECURSIVE BigPow(_, _)
BigPow(a, k) == IF k = 0 THEN <<1>> ELSE BigMul(a, BigPow(a, k - 1))

RECURSIVE BigLeqFrom(_, _, _)
BigLeqFrom(a, b, i) ==
    IF i = 0 THEN TRUE
    ELSE IF a[i] # b[i] THEN a[i] < b[i]
    ELSE BigLeqFrom(a, b, i - 1)

BigLeq(a, b) ==
    IF Len(a) # Len(b) THEN Len(a) < Len(b) ELSE BigLeqFrom(a, b, Len(a))


(***************************************************************************)
(* Non-negative reals of the engine: [k, num, den] stands for the k-th     *)
(* root of num/den.  A logarithm ln(r) is carried as r itself, the mean of *)
(* k logarithms as the k-th root of the product, and exp gives that root   *)
(* back.                                                                   *)
(***************************************************************************)
RealOf(n) == [k |-> 1, num |-> BigOf(n), den |-> <<1>>]

\* x <= s * v, for integers x and s >= 0
IntLeqScaled(x, s, v) ==
    IF x <= 0 THEN TRUE
    ELSE BigLeq(BigMul(BigPow(BigOf(x), v.k), v.den),
                BigMul(BigPow(BigOf(s), v.k), v.num))

\* v <= x, for an integer x >= 0
RealLeqInt(v, x) ==
    BigLeq(v.num, BigMul(BigPow(BigOf(x), v.k), v.den))

RealTimesInt(v, n) == [v EXCEPT !.num = BigMul(BigPow(BigOf(n), v.k), @)]

RealOverInt(v, n) == [v EXCEPT !.den = BigMul(BigPow(BigOf(n), v.k), @)]

\* math.log(ratio): [k, arg_num, arg_den] stands for ln(arg_num/arg_den) / k
Log(ratio) == [k |-> 1, arg_num |-> ratio.num, arg_den |-> ratio.den]

RECURSIVE Sum(_)
Sum(logs) ==
    IF logs = <<>> THEN [k |-> 1, arg_num |-> <<1>>, arg_den |-> <<1>>]
    ELSE LET rest == Sum(Tail(logs))
         IN  [k |-> 1,
              arg_num |-> BigMul(BigOf(Head(logs).arg_num), rest.arg_num),
              arg_den |-> BigMul(BigOf(Head(logs).arg_den), rest.arg_den)]

\* Variant: the sum is not divided by the number of ratios.
GeoMeanLogSum(log_ratios) == [Sum(log_ratios) EXCEPT !.k = 1]

\* sum(log_ratios) / len(log_ratios)
GeoMeanLog(log_ratios) == [Sum(log_ratios) EXCEPT !.k = Len(log_ratios)]

\* math.exp of a mean of logarithms
Exp(l) == [k |-> l.k, num |-> l.arg_num, den |-> l.arg_den]

\* The largest n in lo..hi with (2n - 1) * t <= s * v; lo is known to qualify.
RECURSIVE RoundSearch(_, _, _, _, _)
RoundSearch(v, s, t, lo, hi) ==
    IF lo >= hi THEN lo
    ELSE LET mid == (lo + hi + 1) \div 2
         IN  IF IntLeqScaled((2 * mid - 1) * t, s, v)
             THEN RoundSearch(v, s, t, mid, hi)
             ELSE RoundSearch(v, s, t, lo, mid - 1)

\* round(x, 2) of a rate of at most 100 percent, in hundredths of a percent
RoundRate(v) == RoundSearch(v, 1, RateScale \div 200, 0, 100 * 100)

\* round(x, 2) of a pure number known to be at most hi / 100, in hundredths
RoundNumber(v, hi) == RoundSearch(v, 200, 1, 0, hi)


(***************************************************************************)
(* The Dataset Store (csew_data.json as written by extract_data.py).       *)
(***************************************************************************)
DrugNames == <<"Cannabis", "Ecstasy", "Ketamine">>

QuestionIds == <<"age", "sex", "nightclub">>

\* Values a loaded baseline takes: 0, 8.1234, 10, 20 and 97 percent.
BaselineRates == {0, 81234, 10 * RateScale, 20 * RateScale, 97 * RateScale}

DrugClassLabels ==
    [d \in {"Cannabis", "Ecstasy", "Ketamine"} |->
        IF d = "Ecstasy" THEN "Class A" ELSE "Class B"]

\* The option tables of the questions: option label -> (drug -> rate).  A
\* drug may be missing from an option, and an option may have no rates at
\* all (extract_data.py falls back to {} for a row label it does not find).
SurveyOptions ==
    [qid \in {"age", "sex", "nightclub"} |->
        CASE qid = "age" ->
                [o \in {"16-19", "20-24"} |->
                    IF o = "16-19"
                    THEN [d \in {"Cannabis", "Ketamine"} |->
                            IF d = "Cannabis" THEN 20 * RateScale
                            ELSE 5 * RateScale]
                    ELSE [d \in {"Cannabis", "Ecstasy", "Ketamine"} |->
                            IF d = "Cannabis" THEN 100 * RateScale
                            ELSE IF d = "Ecstasy" THEN 1
                            ELSE 0]]
          [] qid = "sex" ->
                [o \in {"Male", "Female"} |->
                    IF o = "Male"
                    THEN [d \in {"Cannabis", "Ecstasy", "Ketamine"} |->
                            IF d = "Cannabis" THEN 100 * RateScale
                            ELSE IF d = "Ecstasy" THEN 5 * RateScale
                            ELSE 20 * RateScale]
                    ELSE [d \in {"Cannabis", "Ecstasy"} |-> 0]]
          [] qid = "nightclub" ->
                [o \in {"None", "4 or more visits"} |->
                    IF o = "None"
                    THEN [d \in {} |-> 0]
                    ELSE [d \in {"Cannabis", "Ecstasy", "Ketamine"} |->
                            100 * RateScale]]]

LoadedDrugs == SubSeq(DrugNames, 1, MaxDrugs)

LoadedQuestions ==
    [i \in 1..MaxQuestions |->
        [id |-> QuestionIds[i], options |-> SurveyOptions[QuestionIds[i]]]]

Range(f) == {f[x] : x \in DOMAIN f}


(***************************************************************************)
(* Request bodies as request.get_json() delivers them: the JSON literal    *)
(* null (None) or a JSON object.  A value of the object is a string or an  *)
(* array (a Python list, which is unhashable).                             *)
(***************************************************************************)
Str(label) == [t |-> "str", v |-> label]

Arr == [t |-> "array", v |-> ""]

EmptyMap == [key \in {} |-> Arr]

NullBody == [kind |-> "null", map |-> EmptyMap]

ObjectBody(m) == [kind |-> "object", map |-> m]

NoBody == [kind |-> "none", map |-> EmptyMap]

NoResponse == [status |-> 0, results |-> <<>>]

UnknownQid == "shoe_size"

UnknownOption == "Other"

BodyKeys == {QuestionIds[i] : i \in 1..MaxQuestions} \cup {UnknownQid}

ValuesFor(key) ==
    IF key = UnknownQid THEN {Str(UnknownOption), Arr}
    ELSE {Str(o) : o \in DOMAIN SurveyOptions[key] \cup {UnknownOption}}
            \cup {Arr}

BodyMaps ==
    UNION { {m \in [K -> UNION {ValuesFor(key) : key \in K}] :
                \A key \in K : m[key] \in ValuesFor(key)} :
            K \in {S \in SUBSET BodyKeys : Cardinality(S) <= MaxEntries} }

Bodies == {NullBody} \cup {ObjectBody(m) : m \in BodyMaps}

(***************************************************************************)
(* predict (src/predict.py)                                                *)
(***************************************************************************)
\* Variant: a module-level list that outlives the call.
NewResultsShared == response.results

\* results = []
NewResults == <<>>

\* q["options"][chosen].get(drug, 0.0)
DemoRate(q, chosen, drug) ==
    LET rates == q.options[chosen]
    IN  IF drug \in DOMAIN rates THEN rates[drug] ELSE 0

\* Variant: only a negative rate is floored.
FloorRateStrict(demo_rate) == IF demo_rate < 0 THEN Floor ELSE demo_rate

\* if demo_rate <= 0: demo_rate = 0.01
FloorRate(demo_rate) == IF demo_rate <= 0 THEN Floor ELSE demo_rate

\* Variant: the ratio taken the other way round, base / demo_rate.
RatioInverted(demo_rate, base) == [num |-> base, den |-> demo_rate]

\* ratio = demo_rate / base
Ratio(demo_rate, base) == [num |-> demo_rate, den |-> base]

\* Variant: an answer with an unknown option label counts as missing data.
RECURSIVE ScanQuestionsLenient(_, _, _, _)
ScanQuestionsLenient(qs, drug, base, ans) ==
    IF qs = <<>> THEN [raised |-> FALSE, log_ratios |-> <<>>]
    ELSE LET q == Head(qs)
             rest == ScanQuestionsLenient(Tail(qs), drug, base, ans)
         IN  IF ans.kind = "null"
             THEN [raised |-> TRUE, log_ratios |-> <<>>]
             ELSE IF q.id \notin DOMAIN ans.map THEN rest
             ELSE LET chosen == ans.map[q.id]
                  IN  IF chosen.t = "array"
                      THEN [raised |-> TRUE, log_ratios |-> <<>>]
                      ELSE LET demo_rate ==
                                 IF chosen.v \notin DOMAIN q.options
                                 THEN Floor
                                 ELSE FloorRate(DemoRate(q, chosen.v, drug))
                               ratio == Ratio(demo_rate, base)
                           IN  [raised |-> rest.raised,
                                log_ratios |-> <<Log(ratio)>> \o rest.log_ratios]

\* The loop over QUESTIONS for one drug.  raised: a TypeError left the loop
\* (`qid not in None`, or an unhashable chosen in `chosen not in q["options"]`).
RECURSIVE ScanQuestions(_, _, _, _)
ScanQuestions(qs, drug, base, ans) ==
    IF qs = <<>> THEN [raised |-> FALSE, log_ratios |-> <<>>]
    ELSE LET q == Head(qs)
             rest == ScanQuestions(Tail(qs), drug, base, ans)
         IN  IF ans.kind = "null"
             THEN [raised |-> TRUE, log_ratios |-> <<>>]
             ELSE IF q.id \notin DOMAIN ans.map THEN rest
             ELSE LET chosen == ans.map[q.id]
                  IN  IF chosen.t = "array"
                      THEN [raised |-> TRUE, log_ratios |-> <<>>]
                      ELSE IF chosen.v \notin DOMAIN q.options THEN rest
                      ELSE LET demo_rate == FloorRate(DemoRate(q, chosen.v, drug))
                               ratio == Ratio(demo_rate, base)
                           IN  [raised |-> rest.raised,
                                log_ratios |-> <<Log(ratio)>> \o rest.log_ratios]

\* Variant: without ratios the neutral multiplier 1.0 is taken for the rate.
AdjustedNeutral(base, log_ratios) ==
    IF log_ratios # <<>>
    THEN RealTimesInt(Exp(GeoMeanLog(log_ratios)), base)
    ELSE RealOf(RateScale)

\* adjusted = base * exp(sum / len) if log_ratios else base
Adjusted(base, log_ratios) ==
    IF log_ratios # <<>>
    THEN LET geo_mean_log == GeoMeanLog(log_ratios)
         IN  RealTimesInt(Exp(geo_mean_log), base)
    ELSE RealOf(base)

\* Variant: no ceiling.
MinCapOff(adjusted) == adjusted

\* adjusted = min(adjusted, 95.0)
MinCap(adjusted) == IF RealLeqInt(adjusted, Cap) THEN adjusted ELSE RealOf(Cap)

\* adjusted = max(adjusted, 0.0)
MaxZero(adjusted) == IF IntLeqScaled(0, 1, adjusted) THEN adjusted ELSE RealOf(0)

\* multiplier = adjusted / base if base > 0 else 1.0
Multiplier(adjusted, base) ==
    IF base > 0 THEN RealOverInt(adjusted, base) ELSE RealOf(1)

\* DRUG_CLASSES.get(drug, "")
Classification(drug) ==
    IF drug \in DOMAIN DRUG_CLASSES THEN DRUG_CLASSES[drug] ELSE ""

\* The three rounded numbers of a Result: round(adjusted, 2),
\* round(base, 2) and round(multiplier, 2).
Numbers(base, log_ratios) ==
    LET adjusted == MaxZero(MinCap(Adjusted(base, log_ratios)))
        multiplier == Multiplier(adjusted, base)
    IN  [rate |-> RoundRate(adjusted),
         baseline_rate |-> RoundRate(RealOf(base)),
         multiplier |-> RoundNumber(multiplier, (100 * Cap) \div base + 1)]

\* Every rate an option of the loaded questions holds, and 0 for a missing one.
SurveyRates ==
    {0} \cup UNION {UNION {Range(LoadedQuestions[i].options[o]) :
                                o \in DOMAIN LoadedQuestions[i].options} :
                        i \in 1..MaxQuestions}

\* The lists log_ratios that the loop over QUESTIONS can build for a baseline.
LogRatioLists(base) ==
    UNION {[1..n -> {Log(Ratio(FloorRate(r), base)) : r \in SurveyRates}] :
            n \in 0..MaxQuestions}

\* Numbers, tabulated once over the baselines and lists of the exploration.
NumbersTable ==
    [key \in UNION {{<<base, log_ratios>> : log_ratios \in LogRatioLists(base)} :
                        base \in {b \in BaselineRates : b > 0}} |->
        Numbers(key[1], key[2])]

\* The dictionary appended for a drug of positive baseline.
FullResult(drug, base, log_ratios) ==
    LET n == NumbersTable[<<base, log_ratios>>]
    IN  [drug |-> drug,
         rate |-> n.rate,
         baseline_rate |-> n.baseline_rate,
         multiplier |-> n.multiplier,
         classification |-> Classification(drug)]

\* Variant: a zero-baseline drug is reported at the floor, 0.01.
ZeroResultFloor(drug) == [drug |-> drug, rate |-> 1]

\* The dictionary appended for a drug whose baseline is <= 0.
ZeroResult(drug) == [drug |-> drug, rate |-> 0]

\* Variant: `continue` before the append, so a zero-baseline drug is dropped.
RECURSIVE DrugLoopSkipZero(_, _, _)
DrugLoopSkipZero(drugs, ans, results) ==
    IF drugs = <<>> THEN [raised |-> FALSE, results |-> results]
    ELSE LET drug == Head(drugs)
             base == BASELINE[drug]
         IN  IF base <= 0
             THEN DrugLoopSkipZero(Tail(drugs), ans, results)
             ELSE LET scan == ScanQuestions(QUESTIONS, drug, base, ans)
                  IN  IF scan.raised
                      THEN [raised |-> TRUE, results |-> results]
                      ELSE DrugLoopSkipZero(Tail(drugs), ans,
                               Append(results,
                                      FullResult(drug, base, scan.log_ratios)))

\* The body of `for drug in DRUGS`, from the results gathered so far.
RECURSIVE DrugLoop(_, _, _)
DrugLoop(drugs, ans, results) ==
    IF drugs = <<>> THEN [raised |-> FALSE, results |-> results]
    ELSE LET drug == Head(drugs)
             base == BASELINE[drug]
         IN  IF base <= 0
             THEN DrugLoop(Tail(drugs), ans, Append(results, ZeroResult(drug)))
             ELSE LET scan == ScanQuestions(QUESTIONS, drug, base, ans)
                  IN  IF scan.raised
                      THEN [raised |-> TRUE, results |-> results]
                      ELSE DrugLoop(Tail(drugs), ans,
                               Append(results,
                                      FullResult(drug, base, scan.log_ratios)))

\* Variant: reverse=True forgotten.
RateOrderAscending(a, b) == a.rate <= b.rate

\* The sort key, lambda x: x["rate"], under reverse=True: a goes no later than b.
RateOrder(a, b) == a.rate >= b.rate

\* Variant: an unstable sort, where an element goes before its equals.
RECURSIVE InsertSortedUnstable(_, _)
InsertSortedUnstable(sorted, r) ==
    IF sorted = <<>> THEN <<r>>
    ELSE IF Head(sorted).rate > r.rate
         THEN <<Head(sorted)>> \o InsertSortedUnstable(Tail(sorted), r)
         ELSE <<r>> \o sorted

\* list.sort is stable: an element goes after the elements it does not beat.
RECURSIVE InsertSorted(_, _)
InsertSorted(sorted, r) ==
    IF sorted = <<>> THEN <<r>>
    ELSE IF RateOrder(Head(sorted), r)
         THEN <<Head(sorted)>> \o InsertSorted(Tail(sorted), r)
         ELSE <<r>> \o sorted

RECURSIVE SortResults(_, _)
SortResults(results, sorted) ==
    IF results = <<>> THEN sorted
    ELSE SortResults(Tail(results), InsertSorted(sorted, Head(results)))

predict(ans) ==
    LET loop == DrugLoop(DRUGS, ans, NewResults)
    IN  IF loop.raised THEN [raised |-> TRUE, results |-> <<>>]
        ELSE [raised |-> FALSE, results |-> SortResults(loop.results, <<>>)]

(***************************************************************************)
(* predict (src/app.py): the copy of the engine that the /predict route    *)
(* calls.  Its Result has no baseline_rate and no multiplier.              *)
(***************************************************************************)
\* The inner loop `for q in QUESTIONS` of app.py.
RECURSIVE AppScanQuestions(_, _, _, _)
AppScanQuestions(qs, drug, base, ans) ==
    IF qs = <<>> THEN [raised |-> FALSE, log_ratios |-> <<>>]
    ELSE LET q == Head(qs)
             rest == AppScanQuestions(Tail(qs), drug, base, ans)
         IN  IF ans.kind = "null"
             THEN [raised |-> TRUE, log_ratios |-> <<>>]
             ELSE IF q.id \notin DOMAIN ans.map THEN rest
             ELSE LET chosen == ans.map[q.id]
                  IN  IF chosen.t = "array"
                      THEN [raised |-> TRUE, log_ratios |-> <<>>]
                      ELSE IF chosen.v \notin DOMAIN q.options THEN rest
                      ELSE LET demo_rate == FloorRate(DemoRate(q, chosen.v, drug))
                               ratio == Ratio(demo_rate, base)
                           IN  [raised |-> rest.raised,
                                log_ratios |-> <<Log(ratio)>> \o rest.log_ratios]

\* Variant: the copy rounds the rate to 1 decimal.
AppRateOneDecimal(base, log_ratios) ==
    10 * RoundSearch(MaxZero(MinCap(Adjusted(base, log_ratios))),
                     1, RateScale \div 20, 0, 100 * 10)

\* round(adjusted, 2) after the geometric mean and the two clamps of app.py.
AppRate(base, log_ratios) ==
    RoundRate(MaxZero(MinCap(Adjusted(base, log_ratios))))

\* AppRate, tabulated once over the baselines and lists of the exploration.
AppRateTable ==
    [key \in UNION {{<<base, log_ratios>> : log_ratios \in LogRatioLists(base)} :
                        base \in {b \in BaselineRates : b > 0}} |->
        AppRate(key[1], key[2])]

\* The dictionary app.py appends for a drug of positive baseline.
AppResult(drug, base, log_ratios) ==
    [drug |-> drug,
     rate |-> AppRateTable[<<base, log_ratios>>],
     classification |-> Classification(drug)]

\* The body of `for drug in DRUGS` of app.py.
RECURSIVE AppDrugLoop(_, _, _)
AppDrugLoop(drugs, ans, results) ==
    IF drugs = <<>> THEN [raised |-> FALSE, results |-> results]
    ELSE LET drug == Head(drugs)
             base == BASELINE[drug]
         IN  IF base <= 0
             THEN AppDrugLoop(Tail(drugs), ans,
                              Append(results, [drug |-> drug, rate |-> 0]))
             ELSE LET scan == AppScanQuestions(QUESTIONS, drug, base, ans)
                  IN  IF scan.raised
                      THEN [raised |-> TRUE, results |-> results]
                      ELSE AppDrugLoop(Tail(drugs), ans,
                               Append(results,
                                      AppResult(drug, base, scan.log_ratios)))

\* app.py predict: the loop over DRUGS, then results.sort.
app_predict(ans) ==
    LET loop == AppDrugLoop(DRUGS, ans, <<>>)
    IN  IF loop.raised THEN [raised |-> TRUE, results |-> <<>>]
        ELSE [raised |-> FALSE, results |-> SortResults(loop.results, <<>>)]

(***************************************************************************)
(* The process: module load, then calls of predict.                        *)
(***************************************************************************)
\* The observer's memory of one earlier request: its body, its response and
\* the number of requests served since (counted up to MaxLater).
NothingSaved == [answers |-> NoBody, response |-> NoResponse, later |-> 0]

\* The page as it is served: the questionnaire and the submit area are
\* displayed, the submit button is disabled, the progress text counts 0
\* answers; no loading indicator, no results, no alert.
BlankPage ==
    [loading |-> FALSE, shown |-> FALSE, alerted |-> FALSE,
     anyDrug |-> 0, verdict |-> "",
     questionnaire |-> TRUE, submitArea |-> TRUE, disabled |-> TRUE,
     progress |-> 0]

\* The frame of an invocation of predict that has not started: its answers,
\* the drugs still to visit and its local list results.
IdleCall == [at |-> "idle", answers |-> NoBody, drugs |-> <<>>, results |-> <<>>]

NoCalls == [c \in 1..MaxCalls |-> IdleCall]

Init ==
    /\ pc = "start"
    /\ BASELINE = [d \in {} |-> 0]
    /\ DRUG_CLASSES = [d \in {} |-> ""]
    /\ QUESTIONS = <<>>
    /\ DRUGS = <<>>
    /\ answers = NoBody
    /\ response = NoResponse
    /\ saved = NothingSaved
    /\ page = BlankPage
    /\ calls = NoCalls

\* data.py: json.load, then the four module-level names are bound.
Load ==
    /\ pc = "start"
    /\ BASELINE' \in [Range(LoadedDrugs) -> BaselineRates]
    /\ \E labelled \in {Range(LoadedDrugs),
                        Range(LoadedDrugs) \ {LoadedDrugs[MaxDrugs]}} :
            DRUG_CLASSES' = [d \in labelled |-> DrugClassLabels[d]]
    /\ QUESTIONS' = LoadedQuestions
    /\ DRUGS' = LoadedDrugs
    /\ pc' = "ready"
    /\ UNCHANGED <<answers, response, saved, page, calls>>

\* results = predict(answers), as the caller sees it: the list (status 200)
\* or an exception (status 500, as a web framework answers it).
Respond(body) ==
    LET out == predict(body)
    IN  IF out.raised THEN [status |-> 500, results |-> <<>>]
        ELSE [status |-> 200, results |-> out.results]

\* A caller invokes predict.predict(answers) on the loaded store.
call_predict(body) ==
    /\ pc = "ready"
    /\ answers' = body
    /\ response' = Respond(body)
    /\ saved' = IF saved.answers.kind = "none" \/ saved.later >= MaxLater
                THEN saved
                ELSE [saved EXCEPT !.later = @ + 1]
    /\ UNCHANGED <<pc, store, page, calls>>

\* The observer remembers the request just served.
Remember ==
    /\ pc = "ready"
    /\ answers.kind # "none"
    /\ saved' = [answers |-> answers, response |-> response, later |-> 0]
    /\ UNCHANGED <<pc, store, answers, response, page, calls>>

Next ==
    \/ Load
    \/ \E body \in Bodies : call_predict(body)

Spec == Init /\ [][Next]_vars

\* Requests of at most one entry, each of which the observer may remember.
ShortBodies == {b \in Bodies : Cardinality(DOMAIN b.map) <= 1}

NextTwice ==
    \/ Load
    \/ \E body \in ShortBodies : call_predict(body)
    \/ Remember

SpecTwice == Init /\ [][NextTwice]_vars

(***************************************************************************)
(* The web application (src/app.py): its own load of csew_data.json and    *)
(* the /predict route.                                                     *)
(***************************************************************************)
\* app.py binds BASELINE, DRUG_CLASSES, QUESTIONS and DRUGS as data.py does.
AppLoad == Load

\* results = predict(answers); return jsonify(results).  An exception that
\* escapes the view is answered with status 500.
AppRespond(body) ==
    LET out == app_predict(body)
    IN  IF out.raised THEN [status |-> 500, results |-> <<>>]
        ELSE [status |-> 200, results |-> out.results]

\* app.py predict_route, with answers = request.get_json().
predict_route(body) ==
    /\ pc = "ready"
    /\ answers' = body
    /\ response' = AppRespond(body)
    /\ UNCHANGED <<pc, store, saved, page, calls>>

NextApp ==
    \/ AppLoad
    \/ \E body \in Bodies : predict_route(body)

SpecApp == Init /\ [][NextApp]_vars

(***************************************************************************)
(* Module load from any csew_data.json (src/data.py): the file may lack a  *)
(* top-level member, and an option of a question may hold no rate at all.  *)
(***************************************************************************)
Members == {"baseline", "drug_classes", "questions"}

\* The questions as extract_data.py writes them when the row label of the
\* first age group is not found in the sheet: the option maps to {}.
HollowQuestions ==
    [LoadedQuestions EXCEPT ![1].options["16-19"] = [d \in {} |-> 0]]

\* The parsed JSON documents: any subset of the members, any baseline, and
\* the questions with or without the hollow option.
Files ==
    {[m \in present |->
        CASE m = "baseline" -> baseline
          [] m = "drug_classes" ->
                [d \in Range(LoadedDrugs) |-> DrugClassLabels[d]]
          [] m = "questions" -> questions] :
        present \in SUBSET Members,
        baseline \in [Range(LoadedDrugs) -> BaselineRates],
        questions \in {LoadedQuestions, HollowQuestions}}

\* data.py lines 10-16 on a parsed document: _CSEW["baseline"] and the other
\* two subscripts raise KeyError for a missing member and the import fails;
\* nothing else of the document is inspected.
LoadFile(file) ==
    /\ pc = "start"
    /\ IF Members \subseteq DOMAIN file
       THEN /\ BASELINE' = file["baseline"]
            /\ DRUG_CLASSES' = file["drug_classes"]
            /\ QUESTIONS' = file["questions"]
            /\ DRUGS' = LoadedDrugs
            /\ pc' = "ready"
       ELSE /\ pc' = "failed"
            /\ UNCHANGED store
    /\ UNCHANGED <<answers, response, saved, page, calls>>

NextLoad ==
    \/ \E file \in Files : LoadFile(file)
    \/ \E body \in ShortBodies : call_predict(body)

SpecLoad == Init /\ [][NextLoad]_vars

(***************************************************************************)
(* Invocations of predict that run in parallel (threads of the server),    *)
(* each in a frame of its own, one iteration of `for drug in DRUGS` at a   *)
(* time.                                                                   *)
(***************************************************************************)
\* Baselines of the stores under parallel calls: 0 and 10 percent.
ParBaselines == {0, 10 * RateScale}

\* Answers of the parallel calls: none, one recognized, one unhashable.
ParBodies ==
    {ObjectBody(EmptyMap),
     ObjectBody([key \in {"age"} |-> Str("16-19")]),
     ObjectBody([key \in {"age"} |-> Arr])}

\* The state after module load, with no call under way.
InitPar ==
    /\ pc = "ready"
    /\ BASELINE \in [Range(LoadedDrugs) -> ParBaselines]
    /\ DRUG_CLASSES = [d \in Range(LoadedDrugs) |-> DrugClassLabels[d]]
    /\ QUESTIONS = LoadedQuestions
    /\ DRUGS = LoadedDrugs
    /\ answers = NoBody
    /\ response = NoResponse
    /\ saved = NothingSaved
    /\ page = BlankPage
    /\ calls = NoCalls

\* Variant: results is one module-level list that all invocations use.
FrameShared(c) == 1

\* The frame that holds the local name results of invocation c.
Frame(c) == c

\* predict(answers) is entered: results = [] and the loop over DRUGS begins.
Enter(c, body) ==
    /\ pc = "ready"
    /\ calls[c].at = "idle"
    /\ calls' = [calls EXCEPT ![c].at = "loop",
                              ![c].answers = body,
                              ![c].drugs = DRUGS,
                              ![Frame(c)].results = NewResults]
    /\ UNCHANGED <<pc, store, answers, response, saved, page>>

\* One iteration of `for drug in DRUGS`: a Result is appended, or the
\* exception of the inner loop leaves the invocation.
StepDrug(c) ==
    /\ calls[c].at = "loop"
    /\ calls[c].drugs # <<>>
    /\ LET out == DrugLoop(<<Head(calls[c].drugs)>>, calls[c].answers,
                           calls[Frame(c)].results)
       IN  calls' = IF out.raised
                    THEN [calls EXCEPT ![c].at = "raised"]
                    ELSE [calls EXCEPT ![c].drugs = Tail(@),
                                       ![Frame(c)].results = out.results]
    /\ UNCHANGED <<pc, store, answers, response, saved, page>>

\* After the loop: results.sort(...) in place, and return results.
Finish(c) ==
    /\ calls[c].at = "loop"
    /\ calls[c].drugs = <<>>
    /\ calls' = [calls EXCEPT ![c].at = "returned",
                              ![Frame(c)].results = SortResults(@, <<>>)]
    /\ UNCHANGED <<pc, store, answers, response, saved, page>>

\* The caller has taken the outcome; the frame is gone.
Leave(c) ==
    /\ calls[c].at \in {"returned", "raised"}
    /\ calls' = [calls EXCEPT ![c] = IdleCall]
    /\ UNCHANGED <<pc, store, answers, response, saved, page>>

NextPar ==
    \E c \in 1..MaxCalls :
        \/ \E body \in ParBodies : Enter(c, body)
        \/ StepDrug(c)
        \/ Finish(c)
        \/ Leave(c)

SpecPar == InitPar /\ [][NextPar]_vars

(***************************************************************************)
(* The page script of app.py: renderResults, applied to the JSON list that *)
(* the /predict route answered.                                            *)
(***************************************************************************)
\* Rates, in hundredths of a percent, of the Results that reach the page.
RenderRates == {0, 100, 300, 500, 1000, 2000, 3000, 9500}

PageDrugs ==
    <<"Cannabis", "Powder cocaine", "Ecstasy", "Ketamine", "Hallucinogens",
      "Amphetamines">>

PageClass(drug) ==
    IF drug \in {"Powder cocaine", "Ecstasy", "Hallucinogens"}
    THEN "Class A" ELSE "Class B"

\* The list the route answers for a descending list of rates; with bare
\* set, the Results of rate 0 are those of zero-baseline drugs.
Payload(rates, bare) ==
    [i \in DOMAIN rates |->
        IF bare /\ rates[i] = 0
        THEN [drug |-> PageDrugs[i], rate |-> 0]
        ELSE [drug |-> PageDrugs[i], rate |-> rates[i],
              classification |-> PageClass(PageDrugs[i])]]

Payloads ==
    {Payload(rates, bare) :
        rates \in {r \in UNION {[1..n -> RenderRates] : n \in 0..MaxShown} :
                        \A i \in 1..(Len(r) - 1) : r[i] >= r[i + 1]},
        bare \in BOOLEAN}

\* The page after the submit handler: questionnaire hidden, loading shown,
\* and the answer of the fetch at hand.
InitRender ==
    /\ pc = "page"
    /\ BASELINE = [d \in {} |-> 0]
    /\ DRUG_CLASSES = [d \in {} |-> ""]
    /\ QUESTIONS = <<>>
    /\ DRUGS = <<>>
    /\ answers = NoBody
    /\ \E drugs \in Payloads : response = [status |-> 200, results |-> drugs]
    /\ saved = NothingSaved
    /\ page = [BlankPage EXCEPT !.loading = TRUE, !.questionnaire = FALSE,
                                !.submitArea = FALSE, !.disabled = FALSE]
    /\ calls = NoCalls

\* drugs.slice(0, n)
Slice(drugs, n) == SubSeq(drugs, 1, IF Len(drugs) < n THEN Len(drugs) ELSE n)

\* reduce(function(s, d) { return s + d.rate; }, 0)
RECURSIVE ReduceRates(_)
ReduceRates(drugs) ==
    IF drugs = <<>> THEN 0 ELSE Head(drugs).rate + ReduceRates(Tail(drugs))

\* Variant: the estimate sums every Result, not the leading three.
AnyDrugAll(drugs) ==
    LET topThreeSum == ReduceRates(drugs)
        scaled == (topThreeSum * (RateScale \div 100) * Discount) \div 100
    IN  IF scaled < AnyDrugCap THEN scaled ELSE AnyDrugCap

\* Math.min(topThreeSum * 0.85, 95), in rate units.
AnyDrug(drugs) ==
    LET topThreeSum == ReduceRates(Slice(drugs, TopCount))
        scaled == (topThreeSum * (RateScale \div 100) * Discount) \div 100
    IN  IF scaled < AnyDrugCap THEN scaled ELSE AnyDrugCap

\* Variant: the second test reads `<` for `>`.
VerdictBelow(anyDrug) ==
    IF anyDrug > Partying
    THEN "The government is fairly confident you're partying."
    ELSE IF anyDrug < SideEye THEN "A statistical side-eye from Whitehall."
    ELSE IF anyDrug > Average
    THEN "Statistically average - you blend into the crowd."
    ELSE IF anyDrug > SqueakyClean
    THEN "Statistically squeaky-clean, but not implausibly so."
    ELSE "The Home Office considers you an absolute saint."

\* The if / else if chain of the verdict.
Verdict(anyDrug) ==
    IF anyDrug > Partying
    THEN "The government is fairly confident you're partying."
    ELSE IF anyDrug > SideEye THEN "A statistical side-eye from Whitehall."
    ELSE IF anyDrug > Average
    THEN "Statistically average - you blend into the crowd."
    ELSE IF anyDrug > SqueakyClean
    THEN "Statistically squeaky-clean, but not implausibly so."
    ELSE "The Home Office considers you an absolute saint."

\* drugs[0].rate of an empty list, and d.classification.toLowerCase() of a
\* Result without classification, throw TypeError.
RenderThrows(drugs) ==
    \/ drugs = <<>>
    \/ \E i \in DOMAIN drugs : "classification" \notin DOMAIN drugs[i]

\* renderResults(data), and the catch of the fetch chain when it throws:
\* the loading indicator goes first; the results are shown only when the
\* whole list was rendered.
renderResults ==
    /\ pc = "page"
    /\ page.loading
    /\ response.status = 200
    /\ page' = IF RenderThrows(response.results)
               THEN [page EXCEPT !.loading = FALSE, !.alerted = TRUE]
               ELSE [page EXCEPT
                        !.loading = FALSE, !.shown = TRUE,
                        !.anyDrug = AnyDrug(response.results),
                        !.verdict = Verdict(AnyDrug(response.results))]
    /\ UNCHANGED <<pc, store, answers, response, saved, calls>>

NextRender == renderResults

SpecRender == InitRender /\ [][NextRender]_vars

(***************************************************************************)
(* The page script of app.py: the questionnaire, the submit handler and    *)
(* the fetch of /predict.  In the browser, answers is the script's object  *)
(* of that name and response is what the fetch resolved with (status 0     *)
(* while there is none).                                                   *)
(***************************************************************************)
CardIds ==
    <<"age", "sex", "ethnicity", "marital", "employment", "qualification">>

CardLabels == {"Yes", "No"}

\* The questions the template renders as cards, one option button per label.
CardQuestions ==
    [i \in 1..MaxCards |->
        [id |-> CardIds[i],
         options |-> [o \in CardLabels |->
                        [d \in Range(LoadedDrugs) |-> 10 * RateScale]]]]

\* Rates, in hundredths of a percent, that the route reports for a drug of
\* positive baseline.
PageRates == {1000, 2000}

\* The page as served by index(), over a loaded store.
InitPage ==
    /\ pc = "page"
    /\ BASELINE \in [Range(LoadedDrugs) -> ParBaselines]
    /\ DRUG_CLASSES = [d \in Range(LoadedDrugs) |-> DrugClassLabels[d]]
    /\ QUESTIONS = CardQuestions
    /\ DRUGS = LoadedDrugs
    /\ answers = ObjectBody(EmptyMap)
    /\ response = NoResponse
    /\ saved = NothingSaved
    /\ page = BlankPage
    /\ calls = NoCalls

\* Variant: the button is enabled only beyond the third answer.
UpdateProgressStrict(pg, ans) ==
    LET count == Cardinality(DOMAIN ans.map)
    IN  [pg EXCEPT !.progress = count,
                   !.disabled = IF count > MinAnswers THEN FALSE ELSE @]

\* updateProgress: count = Object.keys(answers).length goes to the progress
\* text, and from 3 answers on the submit button is enabled.
UpdateProgress(pg, ans) ==
    LET count == Cardinality(DOMAIN ans.map)
    IN  [pg EXCEPT !.progress = count,
                   !.disabled = IF count >= MinAnswers THEN FALSE ELSE @]

\* handleOptionClick on the option button of question qid labelled value:
\* answers[qid] = value; updateProgress().
handleOptionClick(qid, value) ==
    /\ pc = "page"
    /\ page.questionnaire
    /\ LET map == [key \in DOMAIN answers.map \cup {qid} |->
                        IF key = qid THEN Str(value) ELSE answers.map[key]]
       IN  /\ answers' = ObjectBody(map)
           /\ page' = UpdateProgress(page, ObjectBody(map))
    /\ UNCHANGED <<pc, store, response, saved, calls>>

\* The click handler of the submit button, which a disabled or hidden button
\* does not run: the questionnaire and the submit area are hidden, the
\* loading indicator is shown and the fetch is sent.
submit ==
    /\ pc = "page"
    /\ ~ page.disabled
    /\ page.submitArea
    /\ page' = [page EXCEPT !.questionnaire = FALSE, !.submitArea = FALSE,
                            !.loading = TRUE]
    /\ response' = NoResponse
    /\ UNCHANGED <<pc, store, answers, saved, calls>>

\* The fetch is under way.
Pending == pc = "page" /\ page.loading /\ response.status = 0

\* The lists the route can answer from the store: a Result without
\* classification for a drug of baseline 0, a full Result otherwise, sorted.
RouteAnswers ==
    {SortResults([i \in DOMAIN DRUGS |->
                    IF BASELINE[DRUGS[i]] <= 0
                    THEN [drug |-> DRUGS[i], rate |-> 0]
                    ELSE [drug |-> DRUGS[i], rate |-> rates[i],
                          classification |-> Classification(DRUGS[i])]],
                 <<>>) :
        rates \in [DOMAIN DRUGS -> PageRates]}

\* The fetch resolves with the JSON list of the route.
routeAnswers(drugs) ==
    /\ Pending
    /\ response' = [status |-> 200, results |-> drugs]
    /\ UNCHANGED <<pc, store, answers, saved, page, calls>>

\* The request fails: no response at all (fetch rejects, status 0) or an
\* error page (res.json() rejects).  The catch removes the loading
\* indicator and alerts; it restores nothing else.
requestFails(status) ==
    /\ Pending
    /\ response' = [status |-> status, results |-> <<>>]
    /\ page' = [page EXCEPT !.loading = FALSE, !.alerted = TRUE]
    /\ UNCHANGED <<pc, store, answers, saved, calls>>

\* The Start Again button of the results: location.reload().
startAgain ==
    /\ pc = "page"
    /\ page.shown
    /\ page' = BlankPage
    /\ answers' = ObjectBody(EmptyMap)
    /\ response' = NoResponse
    /\ UNCHANGED <<pc, store, saved, calls>>

\* The fetch settles one way or the other.
Settle ==
    \/ \E drugs \in RouteAnswers : routeAnswers(drugs)
    \/ \E status \in {0, 500} : requestFails(status)

NextPage ==
    \/ \E i \in DOMAIN QUESTIONS :
            \E value \in DOMAIN QUESTIONS[i].options :
                handleOptionClick(QUESTIONS[i].id, value)
    \/ submit
    \/ Settle
    \/ renderResults
    \/ startAgain

\* Every fetch settles and every settled promise runs its handlers.
SpecPage ==
    /\ InitPage
    /\ [][NextPage]_vars
    /\ WF_vars(Settle)
    /\ WF_vars(renderResults)

TypeOK ==
    /\ pc \in {"start", "ready", "failed", "page"}
    /\ response.status \in {0, 200, 500}

(***************************************************************************)
(* Vocabulary of the properties, stated on the store and the request       *)
(* without reference to the engine's own loop.                             *)
(***************************************************************************)
results == response.results

\* An Answer Set: an object that maps each key to one option label.
IsAnswerSet(body) ==
    /\ body.kind = "object"
    /\ \A key \in DOMAIN body.map : body.map[key].t = "str"

Served == pc = "ready" /\ answers.kind # "none"

\* The questions whose id is answered with one of their own option labels.
Recognized(body) ==
    {i \in DOMAIN QUESTIONS :
        /\ QUESTIONS[i].id \in DOMAIN body.map
        /\ body.map[QUESTIONS[i].id].t = "str"
        /\ body.map[QUESTIONS[i].id].v \in DOMAIN QUESTIONS[i].options}

\* The entries of an object that the store does not recognize.
Unrecognized(body) ==
    {key \in DOMAIN body.map :
        \/ \A i \in DOMAIN QUESTIONS : QUESTIONS[i].id # key
        \/ /\ body.map[key].t = "str"
           /\ \A i \in DOMAIN QUESTIONS :
                QUESTIONS[i].id = key =>
                    body.map[key].v \notin DOMAIN QUESTIONS[i].options}

Without(body, key) ==
    ObjectBody([k \in DOMAIN body.map \ {key} |-> body.map[k]])

\* The survey rate of the option answered to question i, for a drug;
\* -1 when the option holds no rate for the drug.
AnsweredRate(i, drug, body) ==
    LET rates == QUESTIONS[i].options[body.map[QUESTIONS[i].id].v]
    IN  IF drug \in DOMAIN rates THEN rates[drug] ELSE -1

\* The same, with the 0.01 floor in place of a missing or non-positive rate.
EffectiveRate(i, drug, body) ==
    IF AnsweredRate(i, drug, body) > 0 THEN AnsweredRate(i, drug, body)
    ELSE Floor

RECURSIVE RateProduct(_, _, _)
RateProduct(S, drug, body) ==
    IF S = {} THEN <<1>>
    ELSE LET i == CHOOSE j \in S : TRUE
         IN  BigMul(BigOf(EffectiveRate(i, drug, body)),
                    RateProduct(S \ {i}, drug, body))

\* The geometric mean of the effective rates exceeds x units.
GeoMeanAbove(x, drug, body) ==
    ~ BigLeq(RateProduct(Recognized(body), drug, body),
             BigPow(BigOf(x), Cardinality(Recognized(body))))

\* The unclamped adjusted rate of a drug of positive baseline exceeds x units.
UnclampedAbove(x, drug, body) ==
    IF Recognized(body) = {} THEN BASELINE[drug] > x
    ELSE GeoMeanAbove(x, drug, body)

\* n hundredths is the 2-decimal rounding of the geometric mean.
RoundsGeoMean(n, drug, body) ==
    LET k == Cardinality(Recognized(body))
        product == RateProduct(Recognized(body), drug, body)
        half == RateScale \div 200
    IN  /\ n > 0 => BigLeq(BigPow(BigOf((2 * n - 1) * half), k), product)
        /\ ~ BigLeq(BigPow(BigOf((2 * n + 1) * half), k), product)

PositiveDrugs == {d \in DOMAIN BASELINE : BASELINE[d] > 0}

(***************************************************************************)
(* Properties                                                              *)
(***************************************************************************)

\* C1: for every Answer Set (empty, partial or full) predict returns exactly
\* one Result for each drug of the baseline mapping and no Result for
\* anything else.
C1_OneResultPerDrug ==
    (Served /\ IsAnswerSet(answers)) =>
        /\ response.status = 200
        /\ \A d \in DOMAIN BASELINE :
                Cardinality({i \in DOMAIN results : results[i].drug = d}) = 1
        /\ \A i \in DOMAIN results : results[i].drug \in DOMAIN BASELINE

\* A partial Answer Set was served from a store that has both a
\* zero-baseline drug and a drug of positive baseline.
C1_Witness ==
    /\ Served /\ IsAnswerSet(answers)
    /\ Recognized(answers) # {}
    /\ Recognized(answers) # DOMAIN QUESTIONS
    /\ PositiveDrugs # {} /\ PositiveDrugs # DOMAIN BASELINE
    /\ Len(results) = Len(DRUGS)

\* C2: every rate of a Result lies in [0, 95], and it is exactly 95.00
\* whenever the unclamped adjusted rate exceeds 95.
C2_RateWithinCap ==
    (Served /\ response.status = 200) =>
        \A i \in DOMAIN results :
            /\ results[i].rate >= 0
            /\ results[i].rate * RateScale <= Cap * 100
            /\ ( /\ results[i].drug \in PositiveDrugs
                 /\ UnclampedAbove(Cap, results[i].drug, answers) )
               => results[i].rate * RateScale = Cap * 100

\* Two answered options each hold 5 times the baseline of 20 percent, and
\* the drug is reported at 95.00.
C2_Witness ==
    /\ Served /\ response.status = 200
    /\ \E i \in DOMAIN results :
        /\ BASELINE[results[i].drug] = 20 * RateScale
        /\ Cardinality(Recognized(answers)) >= 2
        /\ \A q \in Recognized(answers) :
                AnsweredRate(q, results[i].drug, answers)
                    = 5 * BASELINE[results[i].drug]
        /\ results[i].rate = 9500

\* C3: in every returned sequence result[i].rate >= result[i+1].rate.
C3_Descending ==
    (Served /\ response.status = 200) =>
        \A i \in 1..(Len(results) - 1) :
            results[i].rate >= results[i + 1].rate

\* The sort moved a drug: the first Result is not the first drug of DRUGS
\* and its rate is strictly above the next one.
C3_Witness ==
    /\ Served /\ response.status = 200
    /\ Len(results) >= 2
    /\ results[1].drug # DRUGS[1]
    /\ results[1].rate > results[2].rate

\* C4: a drug whose baseline is <= 0 gets rate 0.0 whatever the request
\* holds, and no ratio is computed for it: a store of such drugs only
\* never looks into the request, so even a null body is served.
C4_ZeroBaseline ==
    Served =>
        /\ response.status = 200 =>
                \A i \in DOMAIN results :
                    BASELINE[results[i].drug] <= 0 => results[i].rate = 0
        /\ PositiveDrugs = {} => response.status = 200

\* A zero-baseline drug was reported at 0 although every question was
\* answered with an option that holds a positive rate for it.
C4_Witness ==
    /\ Served /\ response.status = 200
    /\ Recognized(answers) = DOMAIN QUESTIONS
    /\ \E i \in DOMAIN results :
        /\ BASELINE[results[i].drug] = 0
        /\ \A q \in Recognized(answers) :
                AnsweredRate(q, results[i].drug, answers) > 0
        /\ results[i].rate = 0

\* C5: an entry with an unknown question-id, or with an option label that
\* its question does not have, changes nothing: the output equals the output
\* for the Answer Set without that entry.
C5_UnknownEntryIgnored ==
    (Served /\ answers.kind = "object") =>
        \A key \in Unrecognized(answers) :
            response = Respond(Without(answers, key))

\* A request with a recognized answer, an unknown option label and nothing
\* else was served to a store with a drug of positive baseline.
C5_Witness ==
    /\ Served /\ response.status = 200
    /\ PositiveDrugs # {}
    /\ Recognized(answers) # {}
    /\ \E key \in Unrecognized(answers) :
            /\ key # UnknownQid
            /\ answers.map[key] = Str(UnknownOption)

\* C6: no request makes predict fail: whatever body the /predict route
\* delivers, a result list is returned and no error is raised.
C6_NeverFails ==
    Served => response.status = 200

\* C7 as stated: when no recognized answer touches the drugs, every rate
\* equals the drug's baseline rate unchanged (at the 2 decimals that every
\* Result carries), for baselines anywhere in [0, 100].
C7_BaselineUnchanged ==
    (Served /\ response.status = 200 /\ Recognized(answers) = {}) =>
        \A i \in DOMAIN results :
            LET base == BASELINE[results[i].drug]
                step == RateScale \div 100
            IN  results[i].rate = (base + step \div 2) \div step

\* C7 as amended: when no recognized answer touches the drugs, every rate is
\* the drug's baseline rate capped at 95 and rounded to 2 decimals, so a
\* baseline above 95 is reported as 95.00; it is the baseline itself when
\* that is at most 95 and has at most 2 decimals.
C7_BaselineCappedRounded ==
    (Served /\ response.status = 200 /\ Recognized(answers) = {}) =>
        \A i \in DOMAIN results :
            LET base == BASELINE[results[i].drug]
                capped == IF base > Cap THEN Cap ELSE base
                step == RateScale \div 100
            IN  /\ results[i].rate = (capped + step \div 2) \div step
                /\ (base <= Cap /\ base % step = 0)
                        => results[i].rate * step = base

\* The empty Answer Set was served from a store with a baseline above 95
\* and a baseline of more than 2 decimals.
C7_Witness ==
    /\ Served /\ response.status = 200
    /\ answers = ObjectBody(EmptyMap)
    /\ \E d \in DOMAIN BASELINE : BASELINE[d] > Cap
    /\ \E d \in DOMAIN BASELINE : BASELINE[d] % (RateScale \div 100) # 0

\* C8: with k >= 1 recognized answers and a positive baseline the adjusted
\* rate, when it is not clamped, is the geometric mean of the k effective
\* survey rates (baseline times the geometric mean of the ratios), so the
\* reported rate is its 2-decimal rounding; with one recognized answer it is
\* the option's own rate, and baseline 10.0 with survey rate 20.0 gives rate
\* 20.00 and multiplier 2.0.
C8_GeometricMean ==
    (Served /\ response.status = 200 /\ Recognized(answers) # {}) =>
        \A i \in DOMAIN results :
            LET d == results[i].drug
                step == RateScale \div 100
            IN  d \in PositiveDrugs =>
                /\ ~ UnclampedAbove(Cap, d, answers)
                        => RoundsGeoMean(results[i].rate, d, answers)
                /\ \A q \in Recognized(answers) :
                        ( /\ Recognized(answers) = {q}
                          /\ EffectiveRate(q, d, answers) <= Cap )
                        => results[i].rate
                            = (EffectiveRate(q, d, answers) + step \div 2)
                                    \div step
                /\ \A q \in Recognized(answers) :
                        ( /\ Recognized(answers) = {q}
                          /\ BASELINE[d] = 10 * RateScale
                          /\ AnsweredRate(q, d, answers) = 20 * RateScale )
                        => /\ results[i].rate = 2000
                           /\ results[i].multiplier = 200

\* Two recognized answers with different rates gave a drug an unclamped
\* rate, and in the same store baseline 10.0 met a single rate of 20.0.
C8_Witness ==
    /\ Served /\ response.status = 200
    /\ Cardinality(Recognized(answers)) = 2
    /\ \E i \in DOMAIN results :
        /\ results[i].drug \in PositiveDrugs
        /\ \E q1, q2 \in Recognized(answers) :
                EffectiveRate(q1, results[i].drug, answers)
                    # EffectiveRate(q2, results[i].drug, answers)
        /\ results[i].rate = 4472

\* Baseline 10.0 met a single recognized answer of survey rate 20.0.
C8_WitnessLiteral ==
    /\ Served /\ response.status = 200
    /\ \E i \in DOMAIN results : \E q \in Recognized(answers) :
        /\ Recognized(answers) = {q}
        /\ BASELINE[results[i].drug] = 10 * RateScale
        /\ AnsweredRate(q, results[i].drug, answers) = 20 * RateScale
        /\ results[i].rate = 2000

\* A recognized answer holds no rate, or a rate <= 0, for the drug.
Floored(drug, body) ==
    {q \in Recognized(body) : AnsweredRate(q, drug, body) <= 0}

\* C9 as stated: for a drug of positive baseline an answered option whose
\* rate is absent or <= 0 counts as 0.01, and the resulting rate is
\* positive, never zero and never an error.
C9_FloorNeverZero ==
    (Served /\ IsAnswerSet(answers)) =>
        /\ response.status = 200
        /\ \A i \in DOMAIN results :
            ( /\ results[i].drug \in PositiveDrugs
              /\ Floored(results[i].drug, answers) # {} )
            => results[i].rate > 0

\* C9 as amended: such an option counts as 0.01 before the logarithm (ratio
\* 0.01/baseline) and raises no error; the rate is the rounded geometric
\* mean with 0.01 in its place, exactly 0.01 when it is the only recognized
\* answer, and at least 0.01 unless another recognized answer holds a
\* positive rate below 0.01 for the drug.
C9_FloorBeforeLog ==
    (Served /\ IsAnswerSet(answers)) =>
        /\ response.status = 200
        /\ \A i \in DOMAIN results :
            LET d == results[i].drug
            IN  (d \in PositiveDrugs /\ Floored(d, answers) # {}) =>
                /\ ~ UnclampedAbove(Cap, d, answers)
                        => RoundsGeoMean(results[i].rate, d, answers)
                /\ Cardinality(Recognized(answers)) = 1
                        => results[i].rate * (RateScale \div 100) = Floor
                /\ (\A q \in Recognized(answers) :
                        EffectiveRate(q, d, answers) >= Floor)
                        => results[i].rate * (RateScale \div 100) >= Floor

\* A drug of positive baseline met an option without a rate for it and an
\* option with rate 0 in one request, and was reported at 0.01.
C9_Witness ==
    /\ Served /\ response.status = 200
    /\ \E i \in DOMAIN results :
        /\ results[i].drug \in PositiveDrugs
        /\ \E q1, q2 \in Floored(results[i].drug, answers) :
                /\ AnsweredRate(q1, results[i].drug, answers) = -1
                /\ AnsweredRate(q2, results[i].drug, answers) = 0
        /\ results[i].rate = 1

\* C10: two predict calls with the same Answer Set give identical output,
\* whatever calls are served in between.
C10_SameOutput ==
    (Served /\ saved.answers = answers) => saved.response = response

\* A request was remembered, other requests were served, and the
\* remembered one was then served again with results.
C10_Witness ==
    /\ Served /\ saved.answers = answers
    /\ saved.later >= 2
    /\ response.status = 200
    /\ DOMAIN answers.map # {}
    /\ PositiveDrugs # {}

\* m hundredths is the 2-decimal rounding of (unclamped adjusted rate) /
\* baseline, for a drug of positive baseline with recognized answers.
RoundsMultiplier(m, drug, body) ==
    LET k == Cardinality(Recognized(body))
        product == RateProduct(Recognized(body), drug, body)
        base == BigOf(BASELINE[drug])
    IN  /\ m > 0 => BigLeq(BigPow(BigMul(BigOf(2 * m - 1), base), k),
                           BigMul(BigPow(BigOf(200), k), product))
        /\ ~ BigLeq(BigPow(BigMul(BigOf(2 * m + 1), base), k),
                    BigMul(BigPow(BigOf(200), k), product))

\* C11: every Result carries a multiplier, equal (to 2 decimals) to the
\* adjusted rate over the baseline rate, and the multiplier is 1.0 for a
\* drug whose baseline is 0.
C11_MultiplierEverywhere ==
    (Served /\ response.status = 200) =>
        \A i \in DOMAIN results :
            /\ "multiplier" \in DOMAIN results[i]
            /\ BASELINE[results[i].drug] <= 0 => results[i].multiplier = 100
            /\ ( /\ results[i].drug \in PositiveDrugs
                 /\ Recognized(answers) # {}
                 /\ ~ UnclampedAbove(Cap, results[i].drug, answers) )
               => RoundsMultiplier(results[i].multiplier, results[i].drug,
                                   answers)

\* C12: every Result, for every drug, carries a classification string: the
\* drug's label in drug_classes, or the empty string when it has none.
C12_ClassificationEverywhere ==
    (Served /\ response.status = 200) =>
        \A i \in DOMAIN results :
            /\ "classification" \in DOMAIN results[i]
            /\ results[i].classification =
                    IF results[i].drug \in DOMAIN DRUG_CLASSES
                    THEN DRUG_CLASSES[results[i].drug]
                    ELSE ""

\* The position of a drug in the store's enumeration, DRUGS.
DrugIndex(drug) == CHOOSE n \in DOMAIN DRUGS : DRUGS[n] = drug

\* C18: Results of equal (rounded) rate appear in the store's drug
\* enumeration order, the key order of baseline: the sort is stable.
C18_StableTies ==
    (Served /\ response.status = 200) =>
        \A i, j \in DOMAIN results :
            (i < j /\ results[i].rate = results[j].rate) =>
                DrugIndex(results[i].drug) < DrugIndex(results[j].drug)

\* Two drugs of different baselines were adjusted by recognized answers to
\* the same rounded rate.
C18_Witness ==
    /\ Served /\ response.status = 200
    /\ Recognized(answers) # {}
    /\ \E i, j \in DOMAIN results :
        /\ i < j
        /\ results[i].rate = results[j].rate
        /\ results[i].drug \in PositiveDrugs
        /\ results[j].drug \in PositiveDrugs
        /\ BASELINE[results[i].drug] # BASELINE[results[j].drug]

\* The smallest and the largest effective rate among the recognized answers.
MinEffective(drug, body) ==
    CHOOSE x \in {EffectiveRate(i, drug, body) : i \in Recognized(body)} :
        \A i \in Recognized(body) : x <= EffectiveRate(i, drug, body)

MaxEffective(drug, body) ==
    CHOOSE x \in {EffectiveRate(i, drug, body) : i \in Recognized(body)} :
        \A i \in Recognized(body) : x >= EffectiveRate(i, drug, body)

\* A rate in units of 1/RateScale percent, as it is reported: capped at 95
\* and rounded to hundredths of a percent.
Reported(x) ==
    ((IF x <= Cap THEN x ELSE Cap) + RateScale \div 200) \div (RateScale \div 100)

\* C20: for a drug of positive baseline and at least one recognized answer
\* the adjusted rate lies between the smallest and the largest floored rate
\* of the recognized answers (as reported: capped and rounded); so it is not
\* below min(baseline, 95) when every answered rate is above the baseline,
\* and not above the baseline when every answered rate is below it.
C20_BetweenAnsweredRates ==
    (Served /\ response.status = 200 /\ Recognized(answers) # {}) =>
        \A i \in DOMAIN results :
            results[i].drug \in PositiveDrugs =>
                LET d == results[i].drug
                    lo == MinEffective(d, answers)
                    hi == MaxEffective(d, answers)
                IN  /\ Reported(lo) <= results[i].rate
                    /\ results[i].rate <= Reported(hi)
                    /\ ~ UnclampedAbove(hi, d, answers)
                    /\ lo > 0 /\ (lo > 1 => UnclampedAbove(lo - 1, d, answers))
                    /\ lo > BASELINE[d] =>
                            results[i].rate >= Reported(BASELINE[d])
                    /\ hi < BASELINE[d] =>
                            results[i].rate <= Reported(BASELINE[d])

\* Two recognized answers of different rates, both above the baseline of
\* one drug and both below the baseline of another, gave rates strictly
\* between the reported extremes.
C20_Witness ==
    /\ Served /\ response.status = 200
    /\ Cardinality(Recognized(answers)) = 2
    /\ \E i \in DOMAIN results :
        /\ results[i].drug \in PositiveDrugs
        /\ MinEffective(results[i].drug, answers) > BASELINE[results[i].drug]
        /\ Reported(MinEffective(results[i].drug, answers)) < results[i].rate
        /\ results[i].rate < Reported(MaxEffective(results[i].drug, answers))
    /\ \E i \in DOMAIN results :
        /\ results[i].drug \in PositiveDrugs
        /\ MaxEffective(results[i].drug, answers) < BASELINE[results[i].drug]
        /\ MinEffective(results[i].drug, answers)
                < MaxEffective(results[i].drug, answers)

\* What the two engines' Results have in common.
Common(r) ==
    IF "classification" \in DOMAIN r
    THEN [drug |-> r.drug, rate |-> r.rate, classification |-> r.classification]
    ELSE [drug |-> r.drug, rate |-> r.rate]

\* C19: app.predict and predict.predict agree for every store and Answer
\* Set: the same drugs in the same order with the same rate and
\* classification; predict.predict only adds baseline_rate and multiplier.
C19_EnginesAgree ==
    Served =>
        LET other == predict(answers)
        IN  /\ other.raised <=> response.status = 500
            /\ Len(other.results) = Len(results)
            /\ \A i \in DOMAIN results :
                /\ results[i] = Common(other.results[i])
                /\ DOMAIN other.results[i] \ DOMAIN results[i]
                        \subseteq {"baseline_rate", "multiplier"}

\* The route answered two recognized answers for two drugs of positive
\* baseline with rates that differ from their baselines.
C19_Witness ==
    /\ Served /\ response.status = 200
    /\ Cardinality(Recognized(answers)) = 2
    /\ PositiveDrugs = DOMAIN BASELINE
    /\ \A i \in DOMAIN results :
        /\ DOMAIN results[i] = {"drug", "rate", "classification"}
        /\ results[i].rate * (RateScale \div 100) # BASELINE[results[i].drug]
    /\ results[1].rate > 1 /\ results[1].rate < 9500

\* C17: a POST to /predict with no answers is answered with a redirect
\* (status 302) back to '/', not with results and not with an error.
C17_EmptyRedirects ==
    (Served /\ DOMAIN answers.map = {}) => response.status = 302

\* The sum of the rates of the Results at the positions S.
RECURSIVE RateSum(_)
RateSum(S) ==
    IF S = {} THEN 0
    ELSE LET i == CHOOSE j \in S : TRUE
         IN  results[i].rate + RateSum(S \ {i})

\* The rates of the leading Results, at most three.
LeadingRates == [i \in DOMAIN results \cap 1..3 |-> results[i].rate]

\* C13: the any-drug estimate is min(0.85 * (sum of the rates of the first
\* three Results), 95); it always lies in [0, 95]; for leading rates 30, 20
\* and 10 it is 51.0.
C13_AnyDrugEstimate ==
    page.shown =>
        /\ 100 * page.anyDrug =
                IF 85 * 100 * RateSum(DOMAIN results \cap 1..3) < 95 * 100 * RateScale
                THEN 85 * 100 * RateSum(DOMAIN results \cap 1..3)
                ELSE 95 * 100 * RateScale
        /\ page.anyDrug >= 0
        /\ page.anyDrug <= 95 * RateScale
        /\ LeadingRates = <<3000, 2000, 1000>> =>
                10 * page.anyDrug = 510 * RateScale

\* The page shows the estimate of a list of four Results that begins with
\* 30, 20 and 10 percent and goes on with a positive rate.
C13_Witness ==
    /\ page.shown
    /\ LeadingRates = <<3000, 2000, 1000>>
    /\ Len(results) = 4 /\ results[4].rate > 0
    /\ page.anyDrug = 510000

\* The five verdict bands, from the lowest to the highest.
Bands ==
    <<"The Home Office considers you an absolute saint.",
      "Statistically squeaky-clean, but not implausibly so.",
      "Statistically average - you blend into the crowd.",
      "A statistical side-eye from Whitehall.",
      "The government is fairly confident you're partying.">>

BandsOf(verdict) == {b \in DOMAIN Bands : Bands[b] = verdict}

\* The estimates of all lists of Results that can reach the page.
Estimates == {AnyDrug(drugs) : drugs \in Payloads}

\* C14: every any-drug estimate maps to exactly one of the five bands
\* (partying, side-eye, statistically average, squeaky-clean, absolute
\* saint), and a larger estimate never maps to a lower band than a smaller
\* one.
C14_VerdictBands ==
    page.shown =>
        /\ Cardinality(BandsOf(page.verdict)) = 1
        /\ \A e \in Estimates :
            /\ Cardinality(BandsOf(Verdict(e))) = 1
            /\ \A b \in BandsOf(Verdict(e)), c \in BandsOf(page.verdict) :
                /\ e >= page.anyDrug => b >= c
                /\ e <= page.anyDrug => b <= c

\* The page shows the middle verdict, and both a lower and a higher band
\* are taken by other estimates; every band is taken by some estimate.
C14_Witness ==
    /\ page.shown
    /\ BandsOf(page.verdict) = {3}
    /\ \E e \in Estimates : e < page.anyDrug /\ BandsOf(Verdict(e)) = {2}
    /\ \E e \in Estimates : e > page.anyDrug /\ BandsOf(Verdict(e)) = {4}
    /\ \A b \in DOMAIN Bands : \E e \in Estimates : BandsOf(Verdict(e)) = {b}

\* An option of a loaded question holds no drug-rate mapping at all.
HollowStore ==
    \E i \in DOMAIN QUESTIONS :
        \E o \in DOMAIN QUESTIONS[i].options :
            DOMAIN QUESTIONS[i].options[o] = {}

\* C15: a structurally malformed Dataset Store (a missing top-level member,
\* or a question option without any drug-rate mapping) is rejected at load
\* time: the process fails at startup and no predict request is ever served
\* from it.
C15_MalformedRejected ==
    /\ pc = "failed" => response = NoResponse
    /\ HollowStore => (pc # "ready" /\ response = NoResponse)

\* The Result sequence that an invocation has returned.
Returned(c) == calls[Frame(c)].results

\* Every finished invocation has the outcome it has when it runs alone.
AsAlone ==
    \A c \in DOMAIN calls :
        /\ calls[c].at = "returned" =>
                /\ ~ predict(calls[c].answers).raised
                /\ Returned(c) = predict(calls[c].answers).results
        /\ calls[c].at = "raised" => predict(calls[c].answers).raised

\* C16: invocations of predict may run in parallel without coordination:
\* under every interleaving each returns the Result sequence it returns
\* when run alone, and the store (BASELINE, DRUG_CLASSES, QUESTIONS, DRUGS)
\* is never modified after load.
C16_ParallelCalls ==
    /\ [] AsAlone
    /\ [][pc = "ready" => store' = store]_vars

\* Two invocations with different answers were interleaved: one has
\* returned its Results while the other is in the middle of its loop with a
\* Result already appended.
C16_Witness ==
    \E c, d \in DOMAIN calls :
        /\ calls[c].at = "returned"
        /\ calls[c].results # <<>>
        /\ calls[d].at = "loop"
        /\ calls[d].answers # calls[c].answers
        /\ calls[d].results # <<>> /\ calls[d].drugs # <<>>
        /\ PositiveDrugs # {}

\* The distinct questions that have an answer in the page.
Answered == {i \in DOMAIN QUESTIONS : QUESTIONS[i].id \in DOMAIN answers.map}

\* C21: in the questionnaire, in every state reachable by option clicks
\* before submission, the submit button is enabled if and only if at least
\* 3 distinct questions have an answer; the answered count equals the number
\* of distinct answered questions (re-answering replaces the option and
\* leaves the count), never decreases and never exceeds the number of
\* questions.
C21_SubmitFromThree ==
    /\ [](page.questionnaire =>
            /\ ~ page.disabled <=> Cardinality(Answered) >= 3
            /\ page.progress = Cardinality(Answered)
            /\ page.progress <= Len(QUESTIONS))
    /\ [][(page.questionnaire /\ page'.questionnaire) =>
            /\ page'.progress >= page.progress
            /\ (DOMAIN answers'.map = DOMAIN answers.map)
                    => page'.progress = page.progress]_vars

\* Exactly three of more than three questions have an answer, not all with
\* the same option, and the button is enabled.
C21_Witness ==
    /\ page.questionnaire
    /\ Cardinality(Answered) = 3
    /\ Len(QUESTIONS) > 3
    /\ \E i, j \in Answered :
            answers.map[QUESTIONS[i].id] # answers.map[QUESTIONS[j].id]
    /\ ~ page.disabled
    /\ page.progress = 3

\* C22: every submission eventually leaves the loading state, and it ends
\* either with the results shown or, when the /predict request fails, with
\* the questionnaire and the submit button available again, so that the
\* user can try again as the error message asks.
C22_SubmissionEnds ==
    /\ page.loading ~> ~ page.loading
    /\ [](( ~ page.loading /\ ~ page.shown) =>
            (page.questionnaire /\ page.submitArea))
    /\ [](page.alerted =>
            (page.questionnaire /\ page.submitArea /\ ~ page.disabled))

\* The part of C22 that the page keeps: a submission leaves the loading
\* state, with results or with an alert.
C22_LeavesLoading ==
    /\ page.loading ~> ~ page.loading
    /\ []((~ page.loading /\ ~ page.questionnaire) =>
            (page.shown \/ page.alerted))

====
